---- MODULE Spec2Model ----
(***************************************************************************)
(* chadtree: the cut/copy transition (chadtree/transitions/cut_copy.py)    *)
(* and the filesystem cartographer (chadtree/fs/cartographer.py).          *)
(*                                                                         *)
(* A path is the sequence of its components below "/": <<>> is "/",        *)
(* <<"r", "a">> is "/r/a".                                                  *)
(*                                                                         *)
(* Spec      the cut/copy coroutine _operation, one action per stretch of  *)
(*           code between two suspension points (Nvim.input, Nvim.confirm, *)
(*           the awaited move/copy action).                                *)
(* FairSpec  Spec, with every step that is enabled eventually taken.       *)
(* SpecTree  new / update of the cartographer over a changing filesystem.  *)
(* SpecRace  update, one system call at a time, with entries deleted       *)
(*           between its system calls.                                     *)
(***************************************************************************)
EXTENDS Naturals, Sequences, FiniteSets, TLC

VARIABLES
    \* ---- the cut/copy transition -------------------------------------
    selection,        \* state.selection
    node,             \* the node under the cursor (indices(...)), or NoNode
    cwd,              \* Nvim.getcwd()
    index,            \* state.index
    disk,             \* the paths that exist on disk (lstat succeeds)
    pc,               \* where the coroutine is suspended
    nono,             \* _operation's nono argument
    op_name,          \* _operation's op_name argument
    is_move,          \* _operation's is_move argument
    pre_operations,   \* local of _operation: source -> proposed destination
    pre_existing,     \* local of _operation: the colliding entries, in dict order
    new_operations,   \* local of _operation: source -> renamed destination
    written,          \* the Nvim.write(..., error=True) calls, in order
    probed,           \* the paths exists(...) was called on
    asked,            \* source -> the last answer Nvim.input gave for it
    recollided,       \* the sources some answer for which named an existing path
    question,         \* the Nvim.confirm questions asked, in order
    ans,              \* the answer of Nvim.confirm
    calls,            \* the mappings the move/copy action was invoked with
    result,           \* what _operation returned
    notes,            \* kill_buffers / lsp_moved / lsp_created calls, in order
    \* ---- the cartographer ---------------------------------------------
    fs,               \* path -> what lstat/stat/listdir see there
    tree,             \* the current root Node
    idx,              \* the index the current tree was made with
    call,             \* the new/update call that has just returned, if any
    ret,              \* what that call returned or raised
    run,              \* the update call that is running, if any
    obs               \* what the system calls of the running call have given

opVars == <<selection, node, cwd, index, disk, pc, nono, op_name, is_move,
            pre_operations, pre_existing, new_operations, written, probed,
            asked, recollided, question, ans, calls, result, notes>>
treeVars == <<fs, tree, idx, call, ret, run, obs>>
vars == <<opVars, treeVars>>

(***************************************************************************)
(* Bounds of the model.                                                    *)
(***************************************************************************)
MaxSel == 2        \* at most this many paths are selected

(***************************************************************************)
(* Paths (pathlib.PurePath).                                               *)
(***************************************************************************)
Slash == <<>>
pR == <<"r">>
pA == <<"r", "a">>
pB == <<"r", "b">>
pAX == <<"r", "a", "x">>
pAY == <<"r", "a", "y">>
pBX == <<"r", "b", "x">>
pBY == <<"r", "b", "y">>

\* PurePath.parent: "/" is its own parent.
Parent(p) == IF p = <<>> THEN p ELSE SubSeq(p, 1, Len(p) - 1)

\* PurePath.name: "" for "/".
Basename(p) == IF p = <<>> THEN "" ELSE p[Len(p)]

\* PurePath.__truediv__ with a one-component name: p / "" is p.
Join(p, name) == IF name = "" THEN p ELSE Append(p, name)

\* PurePath.parents: every proper prefix.
Parents(p) == {SubSeq(p, 1, n) : n \in 0..(Len(p) - 1)}

\* fs.ops.ancestors(*paths)
Ancestors(paths) == UNION {Parents(p) : p \in paths}

\* fs.ops.unify_ancestors: the members with no ancestor among the members.
UnifyAncestors(paths) == {p \in paths : Ancestors({p}) \cap paths = {}}

\* fs.ops.exists(path, follow=False)
Exists(d) == d \in disk

\* cartographer.is_dir
IsDir(n) == "folder" \in n.mode

(***************************************************************************)
(* std2.locale.pathsort_key: paths compare component by component.         *)
(***************************************************************************)
NameOrder == <<"", "a", "b", "r", "x", "y">>

NameRank(n) == CHOOSE i \in 1..Len(NameOrder) : NameOrder[i] = n

RECURSIVE PathLess(_, _)
PathLess(p, q) ==
    IF p = <<>> THEN q # <<>>
    ELSE IF q = <<>> THEN FALSE
    ELSE IF Head(p) = Head(q) THEN PathLess(Tail(p), Tail(q))
    ELSE NameRank(Head(p)) < NameRank(Head(q))

\* The orders a set can be iterated in.
Orders(S) ==
    {s \in [1..Cardinality(S) -> S] : \A i, j \in 1..Cardinality(S) : s[i] = s[j] => i = j}

\* sorted(m.items(), key=lambda t: pathsort_key(t[0])) for a set of (src, dst) items.
SortedItems(items) ==
    CHOOSE s \in Orders(items) :
        \A i, j \in 1..Cardinality(items) : i < j => PathLess(s[i].src, s[j].src)

Items(m) == {[src |-> s, dst |-> m[s]] : s \in DOMAIN m}

Range(seq) == {seq[i] : i \in 1..Len(seq)}

\* A slip at the focus: the last of the sorted destinations is taken.
LastSorted(S) == {p \in S : \A q \in S \ {p} : PathLess(q, p)}

\* next(iter(sorted(S, key=pathsort_key)), None); an Optional is a set of at most one.
FirstSorted(S) == {p \in S : \A q \in S \ {p} : PathLess(p, q)}

(***************************************************************************)
(* The inputs of the transition.                                           *)
(***************************************************************************)
RootPath == pR                              \* state.root.path
Folders == {pR, pA, pB}
Files == {pAX, pAY, pBX, pBY}
Selectable == {pR, pA, pAX, pAY, pBX}
Cwds == {pR, pA, pB}
NoNode == [none |-> TRUE]
FolderNode(p) == [path |-> p, mode |-> {"folder"}]
FileNode(p) == [path |-> p, mode |-> {"file"}]
NoAnswer == "<no answer>"                   \* the prompt returned None
InputAnswers == {NoAnswer, "", "x", "y"}    \* Nvim.input
ConfirmAnswers == {"none", "yes", "no"}     \* Nvim.confirm: None, True, False

Pending == [kind |-> "pending"]
ReturnedNone == [kind |-> "None"]

(***************************************************************************)
(* cut_copy.py                                                             *)
(***************************************************************************)
\* A slip in _find_dest: the destination is put under the node itself, folder or not.
FindDestInNode(src, n) == Join(n.path, Basename(src))

FindDest(src, n) ==
    LET parent == IF IsDir(n) THEN n.path ELSE Parent(n.path)
    IN  Join(parent, Basename(src))

\* A slip in _cut: the working directory itself is left out of nono.
NonoWithoutCwd(cwd_, root_) == {root_} \cup Ancestors({cwd_, root_})

\* _cut: nono = {cwd, root} | ancestors(cwd, root)
Nono(cwd_, root_) == {cwd_, root_} \cup Ancestors({cwd_, root_})

\* pre_operations = {src: _find_dest(src, node) for src in unified}
PreOperations(unified, n) == [src \in unified |-> FindDest(src, n)]

\* pre_existing = {s: d for s, d in pre_operations.items() if await exists(d, follow=False)}
PreExisting(pre) == [s \in {s \in DOMAIN pre : Exists(pre[s])} |-> pre[s]]

\* not unified or not node
NothingSelected(unified, n) == unified = {} \/ n = NoNode

\* not unified.isdisjoint(nono)
NotPermitted(unified, nono_) == unified \cap nono_ # {}

\* the truth value of pre_existing (while pre_existing / if pre_existing)
Unresolved(pe) == pe # <<>>

\* "if resp" is false: None or the empty string
NoResp(resp) == resp \in {NoAnswer, ""}

\* new_dest = dest.parent / resp
NewDest(dest, resp) == Join(Parent(dest), resp)

\* A slip in the loop: the alternate name is accepted without exists(new_dest).
LoopBodyNoRecheck(pe, newops, resp) ==
    LET top == pe[Len(pe)]
        rest == SubSeq(pe, 1, Len(pe) - 1)
        new_dest == NewDest(top.dst, resp)
    IN  IF NoResp(resp)
        THEN [pre_existing |-> Append(rest, top), new_operations |-> newops,
              break |-> TRUE, probe |-> {}, again |-> {}]
        ELSE [pre_existing |-> rest,
              new_operations |-> (top.src :> new_dest) @@ newops,
              break |-> FALSE, probe |-> {}, again |-> {}]

\* A slip in the loop: a source whose alternate name is free is recorded as
\* renamed and put back among the collisions all the same.
LoopBodyKeepsEntry(pe, newops, resp) ==
    LET top == pe[Len(pe)]
        rest == SubSeq(pe, 1, Len(pe) - 1)
        new_dest == NewDest(top.dst, resp)
    IN  IF NoResp(resp)
        THEN [pre_existing |-> Append(rest, top), new_operations |-> newops,
              break |-> TRUE, probe |-> {}, again |-> {}]
        ELSE [pre_existing |-> Append(rest, [src |-> top.src, dst |-> new_dest]),
              new_operations |-> IF Exists(new_dest) THEN newops
                                 ELSE (top.src :> new_dest) @@ newops,
              break |-> FALSE, probe |-> {new_dest},
              again |-> IF Exists(new_dest) THEN {top.src} ELSE {}]

\* A slip in the loop: a declined entry is dropped and the loop goes on.
LoopBodyDeclineGoesOn(pe, newops, resp) ==
    LET top == pe[Len(pe)]
        rest == SubSeq(pe, 1, Len(pe) - 1)
        new_dest == NewDest(top.dst, resp)
    IN  IF NoResp(resp)
        THEN [pre_existing |-> rest, new_operations |-> newops,
              break |-> FALSE, probe |-> {}, again |-> {}]
        ELSE IF Exists(new_dest)
        THEN [pre_existing |-> Append(rest, [src |-> top.src, dst |-> new_dest]),
              new_operations |-> newops,
              break |-> FALSE, probe |-> {new_dest}, again |-> {top.src}]
        ELSE [pre_existing |-> rest,
              new_operations |-> (top.src :> new_dest) @@ newops,
              break |-> FALSE, probe |-> {new_dest}, again |-> {}]

\* One pass of the while loop for the answer resp: popitem takes the entry
\* inserted last, and an entry put back is inserted last again.
LoopBody(pe, newops, resp) ==
    LET top == pe[Len(pe)]
        rest == SubSeq(pe, 1, Len(pe) - 1)
        new_dest == NewDest(top.dst, resp)
    IN  IF NoResp(resp)
        THEN [pre_existing |-> Append(rest, top), new_operations |-> newops,
              break |-> TRUE, probe |-> {}, again |-> {}]
        ELSE IF Exists(new_dest)
        THEN [pre_existing |-> Append(rest, [src |-> top.src, dst |-> new_dest]),
              new_operations |-> newops,
              break |-> FALSE, probe |-> {new_dest}, again |-> {top.src}]
        ELSE [pre_existing |-> rest,
              new_operations |-> (top.src :> new_dest) @@ newops,
              break |-> FALSE, probe |-> {new_dest}, again |-> {}]

\* operations = {**pre_operations, **new_operations}
Operations(pre, newops) == newops @@ pre

PathsExistMsg(name, pe) ==
    [key |-> "paths already exist", operation |-> name, paths |-> SortedItems(Range(pe))]

ConfirmMsg(name, ops) ==
    [key |-> "confirm op", operation |-> name, paths |-> SortedItems(Items(ops))]

\* A slip at "if not ans": only an explicit no is taken as declined.
NotConfirmedOnlyNo(a) == a = "no"

\* "not ans": Nvim.confirm gave False or None
NotConfirmed(a) == a # "yes"

(***************************************************************************)
(* The cartographer's variables while the transition runs, and the         *)
(* transition's while the cartographer runs.                               *)
(***************************************************************************)
NoTree == [none |-> TRUE]
NoCall == [op |-> "none"]

TreeIdle ==
    /\ fs = <<>>
    /\ tree = NoTree
    /\ idx = {}
    /\ call = NoCall
    /\ ret = NoCall
    /\ run = NoCall
    /\ obs = <<>>

OpIdle ==
    /\ selection = {} /\ node = NoNode /\ cwd = pR /\ index = {} /\ disk = {}
    /\ pc = "off" /\ nono = {} /\ op_name = "" /\ is_move = FALSE
    /\ pre_operations = <<>> /\ pre_existing = <<>> /\ new_operations = <<>>
    /\ written = <<>> /\ probed = {} /\ asked = <<>> /\ recollided = {}
    /\ question = <<>> /\ ans = "none" /\ calls = <<>> /\ result = Pending
    /\ notes = <<>>

(***************************************************************************)
(* _operation, from one suspension point to the next.                      *)
(***************************************************************************)
Init ==
    /\ \E files \in SUBSET Files : disk = {Slash} \cup Folders \cup files
    /\ selection \in {S \in SUBSET (Selectable \cap disk) : Cardinality(S) <= MaxSel}
    /\ node \in {NoNode} \cup {FolderNode(p) : p \in Folders}
                         \cup {FileNode(p) : p \in Files \cap disk}
    /\ cwd \in Cwds
    /\ index \in {{pR}, {pR, pA}}
    /\ pc = "idle"
    /\ nono = {} /\ op_name = "" /\ is_move = FALSE
    /\ pre_operations = <<>> /\ pre_existing = <<>> /\ new_operations = <<>>
    /\ written = <<>> /\ probed = {} /\ asked = <<>> /\ recollided = {}
    /\ question = <<>> /\ ans = "none" /\ calls = <<>> /\ result = Pending
    /\ notes = <<>>
    /\ TreeIdle

\* A slip after the loop: the confirmation is asked whatever is left unresolved.
AfterLoopAlwaysAsks(pe, newops, pre, name) ==
    /\ question' = Append(question, ConfirmMsg(name, Operations(pre, newops)))
    /\ pc' = "confirm"
    /\ written' = written
    /\ result' = result

\* Lines 72-97: after the loop, report what is left or ask for confirmation.
AfterLoop(pe, newops, pre, name) ==
    IF Unresolved(pe)
    THEN /\ written' = Append(written, PathsExistMsg(name, pe))
         /\ pc' = "done"
         /\ result' = ReturnedNone
         /\ question' = question
    ELSE /\ question' = Append(question, ConfirmMsg(name, Operations(pre, newops)))
         /\ pc' = "confirm"
         /\ written' = written
         /\ result' = result

\* Lines 42-57, and on to the first prompt.
Operation(nono_, name_, move_) ==
    /\ pc = "idle"
    /\ nono' = nono_ /\ op_name' = name_ /\ is_move' = move_
    /\ LET unified == UnifyAncestors(selection) IN
       IF NothingSelected(unified, node)
       THEN /\ written' = Append(written, [key |-> "nothing_select"])
            /\ pc' = "done"
            /\ result' = ReturnedNone
            /\ UNCHANGED <<pre_operations, pre_existing, probed, question>>
       ELSE IF NotPermitted(unified, nono_)
       THEN /\ written' = Append(written, [key |-> "operation not permitted on root"])
            /\ pc' = "done"
            /\ result' = ReturnedNone
            /\ UNCHANGED <<pre_operations, pre_existing, probed, question>>
       ELSE LET pre == PreOperations(unified, node)
                coll == PreExisting(pre)
            IN  /\ pre_operations' = pre
                /\ probed' = probed \cup {pre[s] : s \in DOMAIN pre}
                /\ \E order \in Orders(DOMAIN coll) :
                      LET pe == [i \in 1..Cardinality(DOMAIN coll) |->
                                    [src |-> order[i], dst |-> coll[order[i]]]]
                      IN  /\ pre_existing' = pe
                          /\ IF Unresolved(pe)
                             THEN /\ pc' = "input"
                                  /\ UNCHANGED <<written, result, question>>
                             ELSE AfterLoop(pe, new_operations, pre, name_)
    /\ UNCHANGED <<selection, node, cwd, index, disk, new_operations, asked,
                   recollided, ans, calls, notes>>
    /\ UNCHANGED treeVars

\* _cut
Cut == Operation(Nono(cwd, RootPath), "cut", TRUE)

\* A slip in _copy: the operation is started as a move.
CopyAsMove == Operation({}, "copy", TRUE)

\* _copy
Copy == Operation({}, "copy", FALSE)

\* Lines 60-70 for one answer of Nvim.input, and on to the next prompt.
AnswerInput ==
    /\ pc = "input"
    /\ \E resp \in InputAnswers :
          LET source == pre_existing[Len(pre_existing)].src
              body == LoopBody(pre_existing, new_operations, resp)
          IN  /\ asked' = (source :> resp) @@ asked
              /\ pre_existing' = body.pre_existing
              /\ new_operations' = body.new_operations
              /\ probed' = probed \cup body.probe
              /\ recollided' = recollided \cup body.again
              /\ IF ~body.break /\ Unresolved(body.pre_existing)
                 THEN /\ pc' = "input"
                      /\ UNCHANGED <<written, result, question>>
                 ELSE AfterLoop(body.pre_existing, body.new_operations,
                                pre_operations, op_name)
    /\ UNCHANGED <<selection, node, cwd, index, disk, nono, op_name, is_move,
                   pre_operations, ans, calls, notes>>
    /\ UNCHANGED treeVars

\* Lines 93-103 for one answer of Nvim.confirm: return, or invoke the action.
AnswerConfirm ==
    /\ pc = "confirm"
    /\ \E a \in ConfirmAnswers :
          /\ ans' = a
          /\ IF NotConfirmed(a)
             THEN /\ pc' = "done"
                  /\ result' = ReturnedNone
                  /\ calls' = calls
             ELSE /\ pc' = "action"
                  /\ result' = result
                  /\ calls' = Append(calls, Operations(pre_operations, new_operations))
    /\ UNCHANGED <<selection, node, cwd, index, disk, nono, op_name, is_move,
                   pre_operations, pre_existing, new_operations, written, probed,
                   asked, recollided, question, notes>>
    /\ UNCHANGED treeVars

\* A slip at the except branch: the notifications are sent all the same.
ActionRaisesAndNotifies ==
    /\ pc = "action"
    /\ written' = Append(written, [key |-> "exception"])
    /\ pc' = "done"
    /\ result' = [kind |-> "refresh"]
    /\ notes' = IF is_move
                THEN notes \o <<[call |-> "kill_buffers", paths |-> selection],
                                [call |-> "lsp_moved", paths |-> calls[Len(calls)]]>>
                ELSE Append(notes, [call |-> "lsp_created", paths |-> {}])
    /\ UNCHANGED <<selection, node, cwd, index, disk, nono, op_name, is_move,
                   pre_operations, pre_existing, new_operations, probed,
                   asked, recollided, question, ans, calls>>
    /\ UNCHANGED treeVars

\* Lines 104-106: the action raised.
ActionRaises ==
    /\ pc = "action"
    /\ written' = Append(written, [key |-> "exception"])
    /\ pc' = "done"
    /\ result' = [kind |-> "refresh"]
    /\ UNCHANGED <<selection, node, cwd, index, disk, nono, op_name, is_move,
                   pre_operations, pre_existing, new_operations, probed,
                   asked, recollided, question, ans, calls, notes>>
    /\ UNCHANGED treeVars

\* Lines 107-134: the action returned.
ActionReturns ==
    /\ pc = "action"
    /\ LET operations == calls[Len(calls)]
           paths == {Parent(p) : p \in DOMAIN operations \cup {operations[s] : s \in DOMAIN operations}}
           new_index == index \cup paths
           new_selection == {operations[s] : s \in DOMAIN operations}
           focus == FirstSorted(new_selection)
       IN  /\ result' = [kind |-> "Stage", index |-> new_index,
                         selection |-> new_selection, paths |-> paths, focus |-> focus]
           /\ notes' = IF is_move
                       THEN notes \o <<[call |-> "kill_buffers", paths |-> selection],
                                       [call |-> "lsp_moved", paths |-> operations]>>
                       ELSE Append(notes, [call |-> "lsp_created", paths |-> new_selection])
    /\ pc' = "done"
    /\ UNCHANGED <<selection, node, cwd, index, disk, nono, op_name, is_move,
                   pre_operations, pre_existing, new_operations, written, probed,
                   asked, recollided, question, ans, calls>>
    /\ UNCHANGED treeVars

Next ==
    \/ Cut
    \/ Copy
    \/ AnswerInput
    \/ AnswerConfirm
    \/ ActionRaises
    \/ ActionReturns

Spec == Init /\ [][Next]_vars

\* Every prompt is answered and the awaited action comes back.
FairSpec == Spec /\ WF_vars(Next)

(***************************************************************************)
(* cartographer.py: stat.                                                  *)
(*                                                                         *)
(* st_mode is the integer os.stat gives.  What is at a path is a record    *)
(* [l, s]: l holds the st_mode lstat gives, and s the st_mode stat gives   *)
(* (through a symlink); each is empty when the call finds nothing there.   *)
(***************************************************************************)
S_IFIFO == 4096
S_IFDIR == 16384
S_IFREG == 32768
S_IFLNK == 40960
S_IFSOCK == 49152
S_IEXEC == 64
S_IWOTH == 2
S_ISVTX == 512
S_ISGID == 1024
S_ISUID == 2048

S_IFMT(m) == ((m \div 4096) % 16) * 4096
S_ISDIR(m) == S_IFMT(m) = S_IFDIR
S_ISREG(m) == S_IFMT(m) = S_IFREG
S_ISFIFO(m) == S_IFMT(m) = S_IFIFO
S_ISSOCK(m) == S_IFMT(m) = S_IFSOCK
S_ISLNK(m) == S_IFMT(m) = S_IFLNK

\* stat & bit == bit, for a mask of one bit
HasBit(m, bit) == (m \div bit) % 2 = 1

FILE_MODES ==
    (S_IEXEC :> "executable") @@ (S_IWOTH :> "other_writable") @@
    (S_ISVTX :> "sticky_dir") @@ (S_ISGID :> "set_gid") @@ (S_ISUID :> "set_uid")

FsModes(m) ==
    (IF S_ISDIR(m) THEN {"folder"} ELSE {}) \cup
    (IF S_ISREG(m) THEN {"file"} ELSE {}) \cup
    (IF S_ISFIFO(m) THEN {"pipe"} ELSE {}) \cup
    (IF S_ISSOCK(m) THEN {"socket"} ELSE {}) \cup
    {FILE_MODES[bit] : bit \in {b \in DOMAIN FILE_MODES : HasBit(m, b)}}

(***************************************************************************)
(* The filesystem under the tree: /t, /t/b, /t/b/c and /t/s.txt.           *)
(***************************************************************************)
TRoot == <<"t">>
pTB == <<"t", "b">>
pTS == <<"t", "s.txt">>
pTBC == <<"t", "b", "c">>
TPaths == {TRoot, pTB, pTS, pTBC}

Absent == [l |-> {}, s |-> {}]
RegFile == [l |-> {S_IFREG + 420}, s |-> {S_IFREG + 420}]       \* -rw-r--r--
Directory == [l |-> {S_IFDIR + 493}, s |-> {S_IFDIR + 493}]     \* drwxr-xr-x
LinkToDir == [l |-> {S_IFLNK + 511}, s |-> {S_IFDIR + 493}]     \* -> a directory
DanglingLink == [l |-> {S_IFLNK + 511}, s |-> {}]               \* -> nothing
BlockDevice == [l |-> {24576 + 432}, s |-> {24576 + 432}]       \* brw-rw----
Entries == {Absent, RegFile, Directory, LinkToDir, DanglingLink, BlockDevice}

\* What the model lets be at each path.
EntriesAt(p) ==
    IF p = TRoot THEN {Directory, Absent}
    ELSE IF p = pTB THEN Entries \ {BlockDevice}
    ELSE IF p = pTBC THEN {RegFile, Absent, Directory}
    ELSE {RegFile, Absent, BlockDevice}

\* stat(path) finds a directory there
DirLike(e) == \E m \in e.s : S_ISDIR(m)

\* The entries of a directory are the paths one component longer.
Under(p) == {q \in TPaths : Len(q) = Len(p) + 1 /\ SubSeq(q, 1, Len(p)) = p}
Below(p) == {q \in TPaths : Len(q) > Len(p) /\ SubSeq(q, 1, Len(p)) = p}

\* Something is at a path only if a directory is at its parent (/ itself is one).
WellFormed(f) ==
    \A p \in TPaths \ {TRoot} : f[p] # Absent => DirLike(f[Parent(p)])

Filesystems ==
    {f \in [TPaths -> Entries] : WellFormed(f) /\ \A p \in TPaths : f[p] \in EntriesAt(p)}

IndexChoices == SUBSET {TRoot, pTB} \cup {{TRoot, pTB, pTBC}}

\* The error path resolution ends in before it reaches the last component:
\* ENOENT at a missing component, ENOTDIR at one that is no directory.
ResolveError(f, path) ==
    LET bad == {q \in Parents(path) \cap TPaths : ~DirLike(f[q])}
        first == CHOOSE q \in bad : \A r \in bad : Len(q) <= Len(r)
    IN  IF bad = {} THEN ""
        ELSE IF f[first].s = {} THEN "FileNotFoundError"
        ELSE "NotADirectoryError"

\* os.stat(path, follow_symlinks=follow): [exc, st_mode]
OsStat(f, path, follow) ==
    LET err == ResolveError(f, path)
        found == IF follow THEN f[path].s ELSE f[path].l
    IN  IF err # "" THEN [exc |-> err, st_mode |-> 0]
        ELSE IF found = {} THEN [exc |-> "FileNotFoundError", st_mode |-> 0]
        ELSE [exc |-> "", st_mode |-> CHOOSE m \in found : TRUE]

\* os.listdir(path), of a path stat found a directory at
ListDir(f, path) == {Basename(q) : q \in {q \in Under(path) : f[q] # Absent}}

\* basename, splitext
NameExt == ("t" :> "") @@ ("b" :> "") @@ ("c" :> "") @@ ("s.txt" :> ".txt")
Splitext(name) == NameExt[name]

(***************************************************************************)
(* fs/types.py Node: children and ext default to None.                     *)
(***************************************************************************)
NoChildren == [present |-> FALSE]
Children(m) == [present |-> TRUE, map |-> m]
NoExt == "<None>"
MkNode(path, mode, name, children, ext) ==
    [path |-> path, mode |-> mode, name |-> name, children |-> children, ext |-> ext]

\* What a call gives: a value, or the exception it let escape.
Ok(v) == [exc |-> "", val |-> v]
Raise(e) == [exc |-> e]

\* A slip in _fs_stat: FileNotFoundError is not caught.
FsStatNoCatch(f, path) ==
    LET info == OsStat(f, path, FALSE)
        link_info == OsStat(f, path, TRUE)
    IN  IF info.exc # "" THEN Raise(info.exc)
        ELSE IF S_ISLNK(info.st_mode)
        THEN IF link_info.exc # "" THEN Raise(link_info.exc)
             ELSE Ok(FsModes(link_info.st_mode) \cup {"link"})
        ELSE Ok(FsModes(info.st_mode))

\* _fs_stat
FsStat(f, path) ==
    LET info == OsStat(f, path, FALSE)
        link_info == OsStat(f, path, TRUE)
    IN  IF info.exc = "FileNotFoundError" THEN Ok({"orphan_link"})
        ELSE IF info.exc # "" THEN Raise(info.exc)
        ELSE IF S_ISLNK(info.st_mode)
        THEN IF link_info.exc = "FileNotFoundError" THEN Ok({"orphan_link"})
             ELSE IF link_info.exc # "" THEN Raise(link_info.exc)
             ELSE Ok(FsModes(link_info.st_mode) \cup {"link"})
        ELSE Ok(FsModes(info.st_mode))

\* A slip in new: a folder is listed whether or not it is in the index.
InIndexAlways(root, index_) == TRUE

\* root in index
InIndex(root, index_) == root \in index_

\* The first exception among the results of a comprehension, or "".
Escapes(results) ==
    LET bad == {k \in DOMAIN results : results[k].exc # ""}
    IN  IF bad = {} THEN "" ELSE results[CHOOSE k \in bad : TRUE].exc

\* new
RECURSIVE New(_, _, _)
New(f, root, index_) ==
    LET mode == FsStat(f, root)
        name == Basename(root)
    IN  IF mode.exc # "" THEN Raise(mode.exc)
        ELSE IF "folder" \notin mode.val
        THEN Ok(MkNode(root, mode.val, name, NoChildren, Splitext(name)))
        ELSE IF InIndex(root, index_)
        THEN LET built == [path \in {Join(root, d) : d \in ListDir(f, root)} |->
                              New(f, path, index_)]
             IN  IF Escapes(built) # "" THEN Raise(Escapes(built))
                 ELSE Ok(MkNode(root, mode.val, name,
                                Children([path \in DOMAIN built |-> built[path].val]),
                                NoExt))
        ELSE Ok(MkNode(root, mode.val, name, NoChildren, NoExt))

\* root.children or {}
ChildrenOrEmpty(n) == IF n.children.present THEN n.children.map ELSE <<>>

\* A slip in _update: a node in paths is kept as it is.
UpdateRecStale(f, root, index_, paths) == Ok(root)

\* _update
RECURSIVE UpdateRec(_, _, _, _)
UpdateRec(f, root, index_, paths) ==
    IF root.path \in paths
    THEN New(f, root.path, index_)
    ELSE LET walked == [k \in DOMAIN ChildrenOrEmpty(root) |->
                           UpdateRec(f, ChildrenOrEmpty(root)[k], index_, paths)]
         IN  IF Escapes(walked) # "" THEN Raise(Escapes(walked))
             ELSE Ok(MkNode(root.path, root.mode, root.name,
                            Children([k \in DOMAIN walked |-> walked[k].val]),
                            root.ext))

\* update
Update(f, root, index_, paths) ==
    LET walked == UpdateRec(f, root, index_, paths)
    IN  IF walked.exc = "FileNotFoundError" THEN New(f, root.path, index_)
        ELSE walked

(***************************************************************************)
(* The tree over a changing filesystem.  A call of new or update is one    *)
(* step, which leaves the call and what it gave in call and ret; the       *)
(* caller then keeps the tree it got (state.root) or sees the exception.   *)
(***************************************************************************)
InitTree ==
    /\ OpIdle
    /\ fs \in Filesystems
    /\ tree = NoTree
    /\ idx = {}
    /\ call = NoCall
    /\ ret = NoCall
    /\ run = NoCall
    /\ obs = <<>>

\* new(root, index)
Build ==
    /\ tree = NoTree
    /\ call = NoCall
    /\ \E index_ \in IndexChoices :
          /\ call' = [op |-> "new", index |-> index_, paths |-> {}]
          /\ ret' = New(fs, TRoot, index_)
    /\ UNCHANGED <<fs, tree, idx, run, obs>>
    /\ UNCHANGED opVars

\* update(root, index=index, paths=paths) on the current tree
UpdateTree ==
    /\ tree # NoTree
    /\ call = NoCall
    /\ \E index_ \in IndexChoices, paths \in SUBSET TPaths :
          /\ call' = [op |-> "update", index |-> index_, paths |-> paths]
          /\ ret' = Update(fs, tree, index_, paths)
    /\ UNCHANGED <<fs, tree, idx, run, obs>>
    /\ UNCHANGED opVars

\* The caller takes what the call gave: the new tree, or the exception.
Return ==
    /\ call # NoCall
    /\ IF ret.exc = ""
       THEN /\ tree' = ret.val
            /\ idx' = call.index
       ELSE UNCHANGED <<tree, idx>>
    /\ call' = NoCall
    /\ ret' = NoCall
    /\ UNCHANGED <<fs, run, obs>>
    /\ UNCHANGED opVars

\* Something outside changes what is at one path; what was below it is gone.
FsChange ==
    /\ call = NoCall
    /\ \E p \in TPaths, e \in Entries :
          /\ e \in EntriesAt(p)
          /\ e # fs[p]
          /\ p # TRoot => DirLike(fs[Parent(p)])
          /\ fs' = [q \in TPaths |-> IF q = p THEN e
                                     ELSE IF q \in Below(p) THEN Absent
                                     ELSE fs[q]]
    /\ UNCHANGED <<tree, idx, call, ret, run, obs>>
    /\ UNCHANGED opVars

NextTree ==
    \/ Build
    \/ UpdateTree
    \/ Return
    \/ FsChange

SpecTree == InitTree /\ [][NextTree]_vars

(***************************************************************************)
(* update, one system call at a time, while entries are deleted under it.  *)
(*                                                                         *)
(* obs holds what each system call of the running update gave, under       *)
(* <<phase, call, path>>: phase 1 is _update, phase 2 the new(root.path)   *)
(* of the except branch.  The code is run over obs up to the first system  *)
(* call obs has no result for, which is the one made next.  The entries of *)
(* a directory are visited in one fixed order.                             *)
(***************************************************************************)
Need(key) == [exc |-> "<io>", key |-> key]

\* os.listdir(path): [exc, names]
OsListDir(f, path) ==
    LET err == ResolveError(f, path)
    IN  IF err # "" THEN [exc |-> err, names |-> {}]
        ELSE IF f[path].s = {} THEN [exc |-> "FileNotFoundError", names |-> {}]
        ELSE IF ~DirLike(f[path]) THEN [exc |-> "NotADirectoryError", names |-> {}]
        ELSE [exc |-> "", names |-> ListDir(f, path)]

\* The system call key, made on the filesystem as it is now.
Perform(f, key) ==
    IF key[2] = "lstat" THEN OsStat(f, key[3], FALSE)
    ELSE IF key[2] = "stat" THEN OsStat(f, key[3], TRUE)
    ELSE OsListDir(f, key[3])

\* _fs_stat
FsStatStep(o, ph, path) ==
    LET k1 == <<ph, "lstat", path>>
        k2 == <<ph, "stat", path>>
    IN  IF k1 \notin DOMAIN o THEN Need(k1)
        ELSE IF o[k1].exc = "FileNotFoundError" THEN Ok({"orphan_link"})
        ELSE IF o[k1].exc # "" THEN Raise(o[k1].exc)
        ELSE IF S_ISLNK(o[k1].st_mode)
        THEN IF k2 \notin DOMAIN o THEN Need(k2)
             ELSE IF o[k2].exc = "FileNotFoundError" THEN Ok({"orphan_link"})
             ELSE IF o[k2].exc # "" THEN Raise(o[k2].exc)
             ELSE Ok(FsModes(o[k2].st_mode) \cup {"link"})
        ELSE Ok(FsModes(o[k1].st_mode))

\* Where a comprehension stops: at the first entry that raises or waits.
FirstStop(results) ==
    LET bad == {k \in DOMAIN results : results[k].exc # ""}
    IN  IF bad = {} THEN Ok(<<>>) ELSE results[CHOOSE k \in bad : TRUE]

\* new
RECURSIVE NewStep(_, _, _, _)
NewStep(o, ph, root, index_) ==
    LET mode == FsStatStep(o, ph, root)
        name == Basename(root)
        kl == <<ph, "listdir", root>>
    IN  IF mode.exc # "" THEN mode
        ELSE IF "folder" \notin mode.val
        THEN Ok(MkNode(root, mode.val, name, NoChildren, Splitext(name)))
        ELSE IF InIndex(root, index_)
        THEN IF kl \notin DOMAIN o THEN Need(kl)
             ELSE IF o[kl].exc # "" THEN Raise(o[kl].exc)
             ELSE LET built == [path \in {Join(root, d) : d \in o[kl].names} |->
                                   NewStep(o, ph, path, index_)]
                  IN  IF FirstStop(built).exc # "" THEN FirstStop(built)
                      ELSE Ok(MkNode(root, mode.val, name,
                                     Children([path \in DOMAIN built |-> built[path].val]),
                                     NoExt))
        ELSE Ok(MkNode(root, mode.val, name, NoChildren, NoExt))

\* _update
RECURSIVE UpdateRecStep(_, _, _, _)
UpdateRecStep(o, root, index_, paths) ==
    IF root.path \in paths
    THEN NewStep(o, 1, root.path, index_)
    ELSE LET walked == [k \in DOMAIN ChildrenOrEmpty(root) |->
                           UpdateRecStep(o, ChildrenOrEmpty(root)[k], index_, paths)]
         IN  IF FirstStop(walked).exc # "" THEN FirstStop(walked)
             ELSE Ok(MkNode(root.path, root.mode, root.name,
                            Children([k \in DOMAIN walked |-> walked[k].val]),
                            root.ext))

\* update
UpdateStep(o, root, index_, paths) ==
    LET walked == UpdateRecStep(o, root, index_, paths)
    IN  IF walked.exc = "FileNotFoundError" THEN NewStep(o, 2, root.path, index_)
        ELSE walked

\* The tree is the one new built over the filesystem as it is.
InitRace ==
    /\ OpIdle
    /\ fs \in Filesystems
    /\ \E index_ \in IndexChoices :
          /\ tree = New(fs, TRoot, index_).val
          /\ idx = index_
    /\ call = NoCall
    /\ ret = NoCall
    /\ run = NoCall
    /\ obs = <<>>

\* update(root, index=index, paths=paths) is called.
StartUpdate ==
    /\ run = NoCall
    /\ call = NoCall
    /\ \E index_ \in IndexChoices, paths \in SUBSET TPaths :
          run' = [op |-> "update", index |-> index_, paths |-> paths]
    /\ obs' = <<>>
    /\ UNCHANGED <<fs, tree, idx, call, ret>>
    /\ UNCHANGED opVars

\* The running update makes its next system call.
SysCall ==
    /\ run # NoCall
    /\ LET r == UpdateStep(obs, tree, run.index, run.paths)
       IN  /\ r.exc = "<io>"
           /\ obs' = (r.key :> Perform(fs, r.key)) @@ obs
    /\ UNCHANGED <<fs, tree, idx, call, ret, run>>
    /\ UNCHANGED opVars

\* The running update returns or raises.
Finish ==
    /\ run # NoCall
    /\ LET r == UpdateStep(obs, tree, run.index, run.paths)
       IN  /\ r.exc # "<io>"
           /\ ret' = r
    /\ call' = run
    /\ run' = NoCall
    /\ UNCHANGED <<fs, tree, idx, obs>>
    /\ UNCHANGED opVars

\* Something outside deletes an entry, and with it what is below it.
Delete ==
    /\ call = NoCall
    /\ \E p \in TPaths :
          /\ fs[p] # Absent
          /\ fs' = [q \in TPaths |-> IF q = p \/ q \in Below(p) THEN Absent ELSE fs[q]]
    /\ UNCHANGED <<tree, idx, call, ret, run, obs>>
    /\ UNCHANGED opVars

NextRace ==
    \/ StartUpdate
    \/ SysCall
    \/ Finish
    \/ Delete

SpecRace == InitRace /\ [][NextRace]_vars

(***************************************************************************)
(* The claims about the cut/copy transition.                               *)
(***************************************************************************)

\* What the claims call the unified source set, the anchor and the forbidden paths.
UnifiedSources == {s \in selection : \A n \in 0..(Len(s) - 1) : SubSeq(s, 1, n) \notin selection}
Anchor == IF "folder" \in node.mode THEN node.path ELSE SubSeq(node.path, 1, Len(node.path) - 1)
CutForbidden == {cwd, RootPath} \cup {SubSeq(cwd, 1, n) : n \in 0..(Len(cwd) - 1)}
LoopEnded == pc \in {"confirm", "action", "done"}

\* C1: once the collision loop has ended with a collision still unresolved, the
\* operation is over: the action was never invoked, no confirmation was asked,
\* the one message written is the error listing exactly the remaining
\* source -> destination pairs, and None was returned.
C1_UnresolvedBlocks ==
    (LoopEnded /\ pre_existing # <<>>) =>
        /\ pc = "done"
        /\ calls = <<>>
        /\ question = <<>>
        /\ notes = <<>>
        /\ result = ReturnedNone
        /\ Len(written) = 1
        /\ written[1].key = "paths already exist"
        /\ Range(written[1].paths) = Range(pre_existing)

C1_Witness ==
    /\ pc = "done"
    /\ Len(pre_existing) = 2
    /\ Len(written) = 1
    /\ asked # <<>>

\* C2: the action is invoked at most once, and only with the mapping the
\* confirmation showed and after the answer yes; when the confirmation is
\* declined or unanswered the operation ends with no invocation, no message
\* written and None returned.
C2_ActionOnlyAfterYes ==
    /\ Len(calls) <= 1
    /\ calls # <<>> =>
          /\ ans = "yes"
          /\ Len(question) = 1
          /\ Range(question[1].paths) = Items(calls[1])
    /\ (question # <<>> /\ pc # "confirm" /\ ans # "yes") =>
          /\ pc = "done"
          /\ calls = <<>>
          /\ written = <<>>
          /\ notes = <<>>
          /\ result = ReturnedNone

C2_Witness ==
    /\ Len(calls) = 1
    /\ ans = "yes"
    /\ pc = "action"

\* C3 as claimed: a cut whose selection holds the working directory, the tree
\* root or an ancestor of the working directory ends with the forbidden message
\* and no existence check, no prompt and no invocation of the action.
C3_ForbiddenAlways ==
    (is_move /\ selection \cap CutForbidden # {}) =>
        /\ pc = "done"
        /\ written = <<[key |-> "operation not permitted on root"]>>
        /\ probed = {} /\ asked = <<>> /\ question = <<>> /\ calls = <<>>

\* C3 as amended: the same, except that with no node under the cursor the
\* message written is the nothing-selected one.
C3_ForbiddenUnlessNoNode ==
    (is_move /\ selection \cap CutForbidden # {}) =>
        /\ pc = "done"
        /\ written = <<[key |-> IF node = NoNode THEN "nothing_select"
                                ELSE "operation not permitted on root"]>>
        /\ probed = {} /\ asked = <<>> /\ question = <<>> /\ calls = <<>>
        /\ result = ReturnedNone

C3_Witness ==
    /\ is_move
    /\ pc = "done"
    /\ node # NoNode
    /\ cwd = pA
    /\ selection = {pA, pBX}
    /\ written = <<[key |-> "operation not permitted on root"]>>

\* C4: when every colliding source was answered with a free name and the user
\* confirmed, the action is invoked once, with a mapping over exactly the
\* unified sources that sends a renamed source to anchor/(its alternate name)
\* and every other source to anchor/(its base name).
C4_RenamedMapping ==
    (calls # <<>> /\ recollided = {}) =>
        /\ Len(calls) = 1
        /\ DOMAIN calls[1] = UnifiedSources
        /\ \A s \in UnifiedSources :
              calls[1][s] = IF s \in DOMAIN asked
                            THEN Append(Anchor, asked[s])
                            ELSE Append(Anchor, s[Len(s)])

C4_Witness ==
    /\ calls # <<>>
    /\ recollided = {}
    /\ DOMAIN asked # {}
    /\ DOMAIN asked # DOMAIN calls[1]
    /\ "file" \in node.mode

\* C5: at the moment the action is invoked no destination of its mapping exists
\* on disk.
C5_CollisionFree ==
    pc = "action" => \A s \in DOMAIN calls[1] : calls[1][s] \notin disk

C5_Witness ==
    /\ pc = "action"
    /\ recollided # {}
    /\ DOMAIN new_operations # {}
    /\ DOMAIN new_operations # DOMAIN calls[1]

\* C6 as claimed: whatever the answers, a collision loop that is prompting
\* ends, at the report of the unresolved collisions or at the confirmation.
C6_LoopEnds == (pc = "input") ~> (pc \in {"confirm", "done"})

\* C6 as amended: a prompt after which the loop goes on either leaves fewer
\* collisions, or leaves as many with the same source next, and then only
\* because the name just given for it exists at the destination's parent.
C6_Progress ==
    [][(pc = "input" /\ pc' = "input") =>
        LET n == Len(pre_existing)
            source == pre_existing[n].src
        IN  \/ Len(pre_existing') < n
            \/ /\ Len(pre_existing') = n
               /\ pre_existing'[n].src = source
               /\ source \in DOMAIN asked'
               /\ Append(SubSeq(pre_existing[n].dst, 1, Len(pre_existing[n].dst) - 1),
                         asked'[source]) \in disk
               /\ new_operations' = new_operations]_vars

C6_Witness ==
    /\ pc = "input"
    /\ recollided # {}
    /\ Len(pre_existing) = 2

(***************************************************************************)
(* The claims about the cartographer.                                      *)
(***************************************************************************)

\* The nodes of a tree, each with the place it is at: the root at its own
\* path, a child at its key.
RECURSIVE Placed(_, _)
Placed(n, pos) ==
    {[pos |-> pos, node |-> n]} \cup
    (IF n.children.present
     THEN UNION {Placed(n.children.map[k], k) : k \in DOMAIN n.children.map}
     ELSE {})

ProperPrefixes(p) == {SubSeq(p, 1, k) : k \in 0..(Len(p) - 1)}
OnDiskUnder(p) ==
    {q \in TPaths : Len(q) = Len(p) + 1 /\ SubSeq(q, 1, Len(p)) = p /\ fs[q].l # {}}
IsFolderOnDisk(p) == \E m \in fs[p].s : (m \div 4096) % 16 = 4
Updated == call.op = "update" /\ ret.exc = ""

\* C7: after update, every node of the old tree that is not in changed_paths
\* and has no ancestor there has a node at the same place in the result with
\* the same path, name, ext and mode, and with children absent if they were.
C7_UntouchedUnchanged ==
    Updated =>
        \A old \in Placed(tree, tree.path) :
            (old.pos \notin call.paths /\ ProperPrefixes(old.pos) \cap call.paths = {}) =>
                \E new \in Placed(ret.val, ret.val.path) :
                    /\ new.pos = old.pos
                    /\ new.node.path = old.node.path
                    /\ new.node.name = old.node.name
                    /\ new.node.ext = old.node.ext
                    /\ new.node.mode = old.node.mode
                    /\ ~old.node.children.present => ~new.node.children.present

\* C8: in the tree kept after a build and any updates, a node has children
\* present only if it is a folder whose path was in the index the tree was
\* made with.
C8_ChildrenOnlyIfExpanded ==
    tree # NoTree =>
        \A e \in Placed(tree, tree.path) :
            e.node.children.present =>
                "folder" \in e.node.mode /\ e.node.path \in idx

\* C9: in what new builds, a node for a folder outside the index has children
\* absent, and a node for a folder in the index has children whose keys are
\* exactly the paths on disk directly under it, each key the path of its node.
C9_Collapse ==
    (call.op = "new" /\ ret.exc = "") =>
        \A e \in Placed(ret.val, TRoot) :
            /\ e.node.path = e.pos
            /\ IsFolderOnDisk(e.pos) =>
                  IF e.pos \in call.index
                  THEN /\ e.node.children.present
                       /\ DOMAIN e.node.children.map = OnDiskUnder(e.pos)
                       /\ \A k \in OnDiskUnder(e.pos) : e.node.children.map[k].path = k
                  ELSE ~e.node.children.present

C9_Witness ==
    /\ call.op = "new"
    /\ ret.exc = ""
    /\ call.index = {TRoot}
    /\ ret.val.children.present
    /\ DOMAIN ret.val.children.map = {pTB, pTS}
    /\ "folder" \in ret.val.children.map[pTB].mode
    /\ ~ret.val.children.map[pTB].children.present

OrphanRoot ==
    [path |-> TRoot, mode |-> {"orphan_link"}, name |-> "t",
     children |-> [present |-> FALSE], ext |-> ""]

\* C10 as claimed: update on a tree whose root was a folder and has been
\* deleted returns, whatever changed_paths is, the fresh build of the root
\* path: the single node with mode {orphan_link}.
C10_SelfHealAlways ==
    (call.op = "update" /\ "folder" \in tree.mode /\ fs[TRoot].l = {}) =>
        /\ ret.exc = ""
        /\ ret.val = OrphanRoot
        /\ ret = New(fs, TRoot, call.index)

\* C10 as amended: it does so when the root path is in changed_paths.
C10_SelfHealWhenChanged ==
    (call.op = "update" /\ "folder" \in tree.mode /\ fs[TRoot].l = {}
        /\ TRoot \in call.paths) =>
        /\ ret.exc = ""
        /\ ret.val = OrphanRoot
        /\ ret = New(fs, TRoot, call.index)

C10_Witness ==
    /\ call.op = "update"
    /\ tree.children.present
    /\ DOMAIN tree.children.map # {}
    /\ fs[TRoot].l = {}
    /\ TRoot \in call.paths
    /\ ret.exc = ""
    /\ ret.val.mode = {"orphan_link"}

\* C11: whatever is at a path and on the way to it, _fs_stat returns a mode
\* set and lets no exception escape, and the set is exactly {orphan_link}
\* whenever one of its stat calls failed.
C11_StatNeverRaises ==
    \A p \in TPaths :
        LET info == OsStat(fs, p, FALSE)
            failed == \/ info.exc # ""
                      \/ /\ (info.st_mode \div 4096) % 16 = 10
                         /\ OsStat(fs, p, TRUE).exc # ""
        IN  /\ FsStat(fs, p).exc = ""
            /\ failed => FsStat(fs, p).val = {"orphan_link"}

\* C12: every node of a tree new or update returns has a mode that is not
\* empty and does not hold both folder and file.
C12_ModeInvariant ==
    (call # NoCall /\ ret.exc = "") =>
        \A e \in Placed(ret.val, ret.val.path) :
            /\ e.node.mode # {}
            /\ ~({"folder", "file"} \subseteq e.node.mode)

(***************************************************************************)
(* More claims about the cut/copy transition.                              *)
(***************************************************************************)

\* C13: after the action returned, the paths handed to the state update are
\* exactly the parents of the sources and destinations of the mapping, the
\* index handed over is the old index with those parents, the selection is
\* exactly the destinations, and the focus is the destination that sorts
\* before every other one.
C13_CommitEffects ==
    (pc = "done" /\ result.kind = "Stage") =>
        LET ops == calls[1]
            dsts == {ops[s] : s \in DOMAIN ops}
            parents == {SubSeq(p, 1, Len(p) - 1) : p \in DOMAIN ops \cup dsts}
        IN  /\ result.paths = parents
            /\ result.index = index \cup parents
            /\ result.selection = dsts
            /\ Cardinality(result.focus) = 1
            /\ \A f \in result.focus :
                  f \in dsts /\ \A d \in dsts \ {f} : PathLess(f, d)

C13_Witness ==
    /\ pc = "done"
    /\ result.kind = "Stage"
    /\ Cardinality(result.selection) = 2
    /\ Cardinality(result.paths) = 3
    /\ ~(result.paths \subseteq index)

\* C14: when the operation is over after the action was invoked and did not
\* succeed, the one message written is the error, what is returned is the
\* refresh of the tree, which carries no new selection, index or focus, and no
\* buffer-release, moved or created notification was sent.
C14_FailureEffects ==
    (pc = "done" /\ calls # <<>> /\ result.kind # "Stage") =>
        /\ written = <<[key |-> "exception"]>>
        /\ result = [kind |-> "refresh"]
        /\ notes = <<>>

C14_Witness ==
    /\ pc = "done"
    /\ is_move
    /\ Len(calls) = 1
    /\ result.kind = "refresh"
    /\ DOMAIN new_operations # {}

\* The sources a prompt for which was declined, and the sources whose proposed
\* destination exists.
Declined == {s \in DOMAIN asked : asked[s] \in {NoAnswer, ""}}
Colliding == {s \in UnifiedSources : Append(Anchor, s[Len(s)]) \in disk}

\* C16: once a prompt was declined the operation is over with no further
\* prompt, no confirmation and no invocation; the one message written is the
\* report, whose sources are exactly the declined one and the colliding ones
\* never prompted, the latter with their proposed destinations; no source that
\* was renamed to a free name is in it.
C16_DeclineStops ==
    Declined # {} =>
        /\ pc = "done"
        /\ Cardinality(Declined) = 1
        /\ question = <<>> /\ calls = <<>>
        /\ Len(written) = 1
        /\ written[1].key = "paths already exist"
        /\ {e.src : e \in Range(written[1].paths)} = Declined \cup (Colliding \ DOMAIN asked)
        /\ \A e \in Range(written[1].paths) :
              e.src \notin DOMAIN asked => e.dst = Append(Anchor, e.src[Len(e.src)])
        /\ \A s \in DOMAIN new_operations :
              s \notin {e.src : e \in Range(written[1].paths)}

C16_Witness ==
    /\ pc = "done"
    /\ \E s \in DOMAIN asked : asked[s] = ""
    /\ Colliding \ DOMAIN asked # {}
    /\ Len(written[1].paths) = 2

C16_WitnessRenamed ==
    /\ pc = "done"
    /\ Declined # {}
    /\ DOMAIN new_operations # {}
    /\ recollided # {}

\* C17: notifications are sent only by an operation that has ended with the
\* Stage of a confirmed and invoked action, with nothing written; a cut sends
\* the buffer release for the old selection and then the moved notification
\* for the mapping, and nothing else; a copy sends the created notification
\* for the destinations, and nothing else.
C17_Notifications ==
    /\ notes # <<>> =>
          /\ pc = "done"
          /\ result.kind = "Stage"
          /\ ans = "yes"
          /\ Len(calls) = 1
          /\ written = <<>>
          /\ IF op_name = "cut"
             THEN notes = <<[call |-> "kill_buffers", paths |-> selection],
                            [call |-> "lsp_moved", paths |-> calls[1]]>>
             ELSE /\ op_name = "copy"
                  /\ notes = <<[call |-> "lsp_created",
                                paths |-> {calls[1][s] : s \in DOMAIN calls[1]}]>>
    /\ \A i, j \in 1..Len(notes) :
          ~(notes[i].call = "lsp_moved" /\ notes[j].call = "lsp_created")
    /\ (pc = "done" /\ result.kind # "Stage") => notes = <<>>

C17_Witness ==
    /\ op_name = "copy"
    /\ Len(notes) = 1
    /\ notes[1].call = "lsp_created"
    /\ Cardinality(notes[1].paths) = 2

C17_WitnessMoved ==
    /\ op_name = "cut"
    /\ Len(notes) = 2
    /\ notes[2].call = "lsp_moved"

\* C19: no mapping the action is invoked with sends two sources to the same
\* destination.
C19_Injective ==
    \A i \in 1..Len(calls) :
        \A s1, s2 \in DOMAIN calls[i] :
            s1 # s2 => calls[i][s1] # calls[i][s2]

\* C20: no mapping the action is invoked with sends a source to itself or to
\* a path below itself.
C20_NotIntoItself ==
    \A i \in 1..Len(calls) :
        \A s \in DOMAIN calls[i] :
            LET d == calls[i][s]
            IN  ~(Len(d) >= Len(s) /\ SubSeq(d, 1, Len(s)) = s)

(***************************************************************************)
(* More claims about the cartographer.                                     *)
(***************************************************************************)

\* C15: after update, for every node of the old tree that is in changed_paths
\* and has no ancestor there, the result has at the same place exactly what
\* new builds for that path over the filesystem as it is, with the index
\* update was given.
C15_RebuiltEqualsBuild ==
    Updated =>
        \A old \in Placed(tree, tree.path) :
            (old.pos \in call.paths /\ ProperPrefixes(old.pos) \cap call.paths = {}) =>
                \E new \in Placed(ret.val, ret.val.path) :
                    /\ new.pos = old.pos
                    /\ New(fs, old.pos, call.index) = [exc |-> "", val |-> new.node]

C15_Witness ==
    /\ Updated
    /\ call.paths = {pTB}
    /\ tree.children.present
    /\ pTB \in DOMAIN tree.children.map
    /\ "file" \in tree.children.map[pTB].mode
    /\ fs[pTB] = Directory /\ fs[pTBC] = RegFile
    /\ pTB \in call.index
    /\ ret.val.children.map[pTB].children.present
    /\ DOMAIN ret.val.children.map[pTB].children.map = {pTBC}

\* C18: whatever is deleted while update runs, update returns a tree, whose
\* root is at the path of the old root, and raises nothing.
C18_VanishedRecovered ==
    call.op = "update" =>
        /\ ret.exc = ""
        /\ ret.val.path = tree.path

====
